---- MODULE Spec2Model ----
(* State-machine model of GDriveUploader (src/gdrive_uploader.py): the main    *)
(* thread of upload(), the ThreadPoolExecutor workers running upload_item(),   *)
(* each worker's rclone subprocess with its stdout reader thread, and the      *)
(* unlocked display loop.                                                      *)
EXTENDS Integers, Sequences, FiniteSets, TLC

\* ---------------------------------------------------------------- bounds
MaxWorkers  == 2    \* largest --workers value explored
MaxAccounts == 2    \* largest number of service-account files explored
MaxItems    == 2    \* largest number of enumerated items explored
MaxLines    == 2    \* most output lines the subprocesses of one run emit

SizeSet == {1, 3}           \* item sizes in bytes
NoPct   == -1               \* re.search(r"(\d+)%") found no match
NoMatch == "nomatch"        \* speed / ETA regex found no match

\* An output line is abstracted to what the three regexes of lines 459-461
\* extract from it.  The pipe and the queue are FIFO and nothing looks at a
\* line before line 459, so they are kept as counts and the text of a line is
\* drawn when it is parsed.
LineSet ==
  { [pct |-> NoPct, speed |-> NoMatch,     eta |-> NoMatch],
    [pct |-> 50,    speed |-> NoMatch,     eta |-> NoMatch],
    [pct |-> 100,   speed |-> "1MBytes/s", eta |-> "0s"],
    [pct |-> 150,   speed |-> NoMatch,     eta |-> NoMatch] }

NoWorker == 0
NoItem   == 0
NoCode   == -1              \* process.returncode is None

VARIABLES
  max_workers,            \* self.max_workers
  nAccounts,              \* len(self.service_accounts)
  current_account_index,  \* self.current_account_index
  temp_dir,               \* TRUE while the mkdtemp() directory exists
  mainpc,                 \* position of the main thread in upload()
  items,                  \* enumerated items: sequence of sizes, index = rel_path
  total_size,             \* self.total_size
  upload_stats,           \* self.upload_stats, indexed like items
  overall_transferred,    \* self.overall_transferred
  active_uploads,         \* self.active_uploads
  processed_files,        \* self.processed_files
  completed_files,        \* self.completed_files
  lock,                   \* holder of self.lock, NoWorker when free
  work_queue,             \* submitted items no worker has taken yet
  futures_done,           \* items whose future reports done()
  wpc,                    \* position of each worker thread in upload_item
  witem,                  \* item a worker runs
  account,                \* worker local: account (index into service_accounts)
  next_index,             \* worker local of _get_next_account
  last_transferred,       \* worker local
  last_percent,           \* worker local
  last_speed,             \* worker local
  last_eta,               \* worker local
  delta,                  \* worker local
  no_signal,              \* worker local: none of the three patterns matched the line
  tmp,                    \* value of overall_transferred loaded by "+="
  proc,                   \* subprocess of a worker: "none", "running", "exited"
  returncode,             \* its exit code
  nlines,                 \* lines the subprocesses have written so far
  pipe,                   \* number of lines written, not yet read by the reader thread
  q,                      \* number of lines in the queue.Queue filled by enqueue_output
  torn_seen,              \* history: the display loop rendered an inconsistent frame
  summary,                \* result printed by lines 375-385
  root_ok,                \* the source root existed and was readable when scanned
  outcome,                \* the last outcome message the process printed
  exit_status,            \* exit status of the Python process, NoCode while it runs
  handed,                 \* history: account indices returned, in call order
  appliedPos,             \* history: sum of the non-negative deltas applied
  appliedAll,             \* history: sum of all deltas applied
  exitcode,               \* history: exit code of each item's subprocess
  removals                \* history: number of active_uploads.remove per item

vars == << max_workers, nAccounts, current_account_index, temp_dir, mainpc,
           items, total_size, upload_stats, overall_transferred,
           active_uploads, processed_files, completed_files, lock, work_queue,
           futures_done, wpc, witem, account, next_index, last_transferred,
           last_percent, last_speed, last_eta, delta, no_signal, tmp, proc,
           returncode,
           nlines, pipe, q, torn_seen, summary, root_ok, outcome, exit_status,
           handed, appliedPos, appliedAll, exitcode, removals >>

mainVars   == << mainpc, items, total_size, temp_dir, summary, root_ok,
                 outcome, exit_status >>
exitVars   == << root_ok, outcome, exit_status >>
sharedVars == << upload_stats, overall_transferred, active_uploads,
                 processed_files, completed_files, lock >>
acctVars   == << current_account_index, account, next_index, handed >>
parseVars  == << last_transferred, last_percent, last_speed, last_eta, delta,
                 no_signal >>
procVars   == << proc, returncode, pipe, q >>
poolVars   == << work_queue, futures_done, wpc, witem >>
histVars   == << appliedPos, appliedAll, exitcode, removals >>
confVars   == << max_workers, nAccounts >>

Workers == 1..MaxWorkers
Pool    == 1..max_workers

\* ---------------------------------------------------------------- helpers
RECURSIVE SumSeq(_)
SumSeq(s) == IF s = << >> THEN 0 ELSE Head(s) + SumSeq(Tail(s))

RECURSIVE SeqsUpTo(_)
SeqsUpTo(n) ==
  IF n = 0 THEN { << >> }
  ELSE LET shorter == SeqsUpTo(n - 1)
       IN  shorter \cup { Append(s, x) : s \in { t \in shorter : Len(t) = n - 1 },
                                         x \in SizeSet }

ItemIds == 1..Len(items)

NewStats(size) ==
  [ size |-> size, transferred |-> 0, speed |-> "", eta |-> "",
    completed |-> FALSE, failed |-> FALSE, started |-> FALSE ]

\* what one pass of the display code reads: line 335 / 229 and lines 174-183
Snapshot ==
  [ overall     |-> overall_transferred,
    transferred |-> [ i \in DOMAIN upload_stats |-> upload_stats[i].transferred ] ]

\* a frame is consistent when its total is the sum of its per-item values
Consistent(frame) == frame.overall = SumSeq(frame.transferred)

AllDone == futures_done = ItemIds



\* ---------------------------------------------------------------- pieces of code
\* faulty variant of NextIndex: the index is advanced without wrapping
NextIndexNoWrap(i, n) == i + 1

\* line 95: next_index = (self.current_account_index + 1) % len(self.service_accounts)
NextIndex(i, n) == (i + 1) % n

\* line 472: transferred_bytes = size * last_percent // 100
TransferredBytes(size, percent) == (size * percent) \div 100

\* faulty variant of AddDelta: "=" in place of "+="
AddDeltaOverwrites(loaded, d) == d

\* lines 478 and 492: self.overall_transferred += <delta>, the store half
AddDelta(loaded, d) == loaded + d

\* faulty variant of RemainingBytes: the last estimate is not subtracted
RemainingBytesWhole(size, last) == size

\* line 491: remaining_bytes = size - last_transferred
RemainingBytes(size, last) == size - last

\* faulty variant of FinalTransferred: the last estimate is kept on success
FinalTransferredKeepsEstimate(size, last) == last

\* line 497: 'transferred': size
FinalTransferred(size, last) == size

\* faulty variant of ExitOk: any exit of the subprocess counts as success
ExitOkAnyCode(rc) == rc # NoCode

\* line 489: process.returncode == 0
ExitOk(rc) == rc = 0

\* faulty variant of LockFree: the critical sections are entered without the lock
LockIgnored == TRUE

\* "with self.lock": the lock can be taken only when nobody holds it
LockFree == lock = NoWorker

\* faulty variant of Keep: a pattern that did not match overwrites the value
KeepResets(found, none, old) == found

\* lines 464-469: a signal overwrites the last-known value only if found
Keep(found, none, old) == IF found = none THEN old ELSE found

\* line 375: successful_uploads
SuccessfulUploads == Cardinality({ i \in DOMAIN upload_stats : upload_stats[i].completed })

\* lines 383-385: the items printed under "Failed items:"
FailedItems == { i \in DOMAIN upload_stats : ~upload_stats[i].completed }

\* ---------------------------------------------------------------- initial state
Init ==
  /\ max_workers \in 1..MaxWorkers
  /\ nAccounts \in 1..MaxAccounts
  /\ current_account_index = 0
  /\ temp_dir = TRUE
  /\ mainpc = "scan"
  /\ items = << >>
  /\ total_size = 0
  /\ upload_stats = << >>
  /\ overall_transferred = 0
  /\ active_uploads = {}
  /\ processed_files = 0
  /\ completed_files = 0
  /\ lock = NoWorker
  /\ work_queue = << >>
  /\ futures_done = {}
  /\ wpc = [ w \in Workers |-> "idle" ]
  /\ witem = [ w \in Workers |-> NoItem ]
  /\ account = [ w \in Workers |-> 0 ]
  /\ next_index = [ w \in Workers |-> 0 ]
  /\ last_transferred = [ w \in Workers |-> 0 ]
  /\ last_percent = [ w \in Workers |-> 0 ]
  /\ last_speed = [ w \in Workers |-> "" ]
  /\ last_eta = [ w \in Workers |-> "" ]
  /\ no_signal = [ w \in Workers |-> FALSE ]
  /\ delta = [ w \in Workers |-> 0 ]
  /\ tmp = [ w \in Workers |-> 0 ]
  /\ proc = [ w \in Workers |-> "none" ]
  /\ returncode = [ w \in Workers |-> NoCode ]
  /\ nlines = 0
  /\ pipe = [ w \in Workers |-> 0 ]
  /\ q = [ w \in Workers |-> 0 ]
  /\ torn_seen = FALSE
  /\ summary = [ printed |-> FALSE, successful |-> 0, failed |-> {} ]
  /\ root_ok = TRUE
  /\ outcome = "none"
  /\ exit_status = NoCode
  /\ handed = << >>
  /\ appliedPos = 0
  /\ appliedAll = 0
  /\ exitcode = << >>
  /\ removals = << >>

\* ---------------------------------------------------------------- main thread
\* faulty variant of NothingToDo: the empty check is missing
NothingToDoNever(n) == FALSE

\* line 275: total_items == 0
NothingToDo(n) == n = 0

\* lines 272-277: _get_items_to_upload(), then the empty short-circuit.
\* os.walk (line 113) ignores the error of a root that is missing or cannot
\* be read and yields nothing, so such a root gives an empty item list.
Scan(found, readable) ==
  /\ mainpc = "scan"
  /\ ~readable => found = << >>
  /\ root_ok' = readable
  /\ items' = found
  /\ total_size' = SumSeq(found)
  /\ IF NothingToDo(Len(found))
       THEN mainpc' = "main_end" /\ outcome' = "nothing_to_do"
       ELSE mainpc' = "init_stats" /\ outcome' = outcome
  /\ UNCHANGED << nlines, temp_dir, summary, exit_status, sharedVars,
                  acctVars, parseVars, procVars, poolVars, histVars, confVars,
                  tmp, torn_seen >>

\* lines 139 / 157: os.path.getsize raises OSError (a file vanished after the
\* walk, a broken symlink); the exception leaves upload() and is caught at
\* line 542
ScanRaises ==
  /\ mainpc = "scan"
  /\ mainpc' = "main_end"
  /\ outcome' = "critical"
  /\ UNCHANGED << nlines, items, total_size, temp_dir, summary, root_ok,
                  exit_status, sharedVars, acctVars, parseVars, procVars,
                  poolVars, histVars, confVars, tmp, torn_seen >>

\* lines 279-290: one zeroed stats record per item
InitStats ==
  /\ mainpc = "init_stats"
  /\ upload_stats' = [ i \in ItemIds |-> NewStats(items[i]) ]
  /\ exitcode' = [ i \in ItemIds |-> NoCode ]
  /\ removals' = [ i \in ItemIds |-> 0 ]
  /\ mainpc' = "submit"
  /\ UNCHANGED << nlines, items, total_size, temp_dir, summary, exitVars, overall_transferred,
                  active_uploads, processed_files, completed_files, lock,
                  acctVars, parseVars, procVars, poolVars, appliedPos, appliedAll,
                  confVars, tmp, torn_seen >>

\* lines 320-330: every item is submitted, in enumeration order
Submit ==
  /\ mainpc = "submit"
  /\ work_queue' = [ i \in ItemIds |-> i ]
  /\ mainpc' = "poll"
  /\ UNCHANGED << nlines, items, total_size, temp_dir, summary, exitVars, sharedVars, acctVars,
                  parseVars, procVars, futures_done, wpc, witem, histVars,
                  confVars, tmp, torn_seen >>

\* lines 333-359: one pass of the display loop; it reads without self.lock
Present ==
  /\ mainpc = "poll"
  /\ ~AllDone
  /\ torn_seen' = (torn_seen \/ ~Consistent(Snapshot))
  /\ UNCHANGED << nlines, mainVars, sharedVars, acctVars, parseVars, procVars,
                  poolVars, histVars, confVars, tmp >>

\* line 333 false, executor shutdown, lines 361-372: the final display update
FinalUpdate ==
  /\ mainpc = "poll"
  /\ AllDone
  /\ torn_seen' = (torn_seen \/ ~Consistent(Snapshot))
  /\ mainpc' = "summary"
  /\ UNCHANGED << nlines, items, total_size, temp_dir, summary, exitVars, sharedVars, acctVars,
                  parseVars, procVars, poolVars, histVars, confVars, tmp >>

\* lines 375-385: the printed result
Summary ==
  /\ mainpc = "summary"
  /\ summary' = [ printed    |-> TRUE,
                  successful |-> SuccessfulUploads,
                  failed     |-> IF Len(items) - SuccessfulUploads > 0
                                 THEN FailedItems ELSE {} ]
  /\ outcome' = "completed"
  /\ mainpc' = "cleanup"
  /\ UNCHANGED << nlines, items, total_size, temp_dir, root_ok, exit_status,
                  sharedVars, acctVars, parseVars,
                  procVars, poolVars, histVars, confVars, tmp, torn_seen >>

\* line 387: shutil.rmtree(self.temp_dir)
Cleanup ==
  /\ mainpc = "cleanup"
  /\ temp_dir' = FALSE
  /\ mainpc' = "main_end"
  /\ UNCHANGED << nlines, items, total_size, summary, exitVars, sharedVars, acctVars,
                  parseVars, procVars, poolVars, histVars, confVars, tmp, torn_seen >>

\* KeyboardInterrupt is raised in the main thread inside the loop of lines
\* 333-359; leaving the "with ThreadPoolExecutor" block of line 320 calls
\* shutdown(wait=True), which cancels nothing and joins the pool threads
Interrupt ==
  /\ mainpc = "poll"
  /\ mainpc' = "shutdown"
  /\ UNCHANGED << nlines, items, total_size, temp_dir, summary, root_ok, outcome,
                  exit_status,
                  sharedVars, acctVars, parseVars, procVars, poolVars, histVars,
                  confVars, tmp, torn_seen >>

\* the pool threads have ended; the KeyboardInterrupt leaves upload() and is
\* caught at lines 540-541
ReportCanceled ==
  /\ mainpc = "shutdown"
  /\ AllDone
  /\ outcome' = "canceled"
  /\ mainpc' = "main_end"
  /\ UNCHANGED << nlines, items, total_size, temp_dir, summary, root_ok,
                  exit_status, sharedVars, acctVars, parseVars, procVars,
                  poolVars, histVars, confVars, tmp, torn_seen >>

\* lines 538-544: every path ends the script without sys.exit
ExitStatus(result) == 0

\* the end of the script
ProcessExit ==
  /\ mainpc = "main_end"
  /\ exit_status' = ExitStatus(outcome)
  /\ mainpc' = "exited"
  /\ UNCHANGED << nlines, items, total_size, temp_dir, summary, root_ok, outcome,
                  sharedVars, acctVars, parseVars, procVars, poolVars, histVars,
                  confVars, tmp, torn_seen >>

\* ---------------------------------------------------------------- worker threads
Max0(x) == IF x > 0 THEN x ELSE 0

\* upload_item returns or raises: the future becomes done and the pool thread
\* is free again; the locals of the call and its subprocess handle are gone.
Finish(w) ==
  /\ futures_done' = futures_done \cup { witem[w] }
  /\ wpc' = [ wpc EXCEPT ![w] = "idle" ]
  /\ witem' = [ witem EXCEPT ![w] = NoItem ]
  /\ account' = [ account EXCEPT ![w] = 0 ]
  /\ next_index' = [ next_index EXCEPT ![w] = 0 ]
  /\ last_transferred' = [ last_transferred EXCEPT ![w] = 0 ]
  /\ last_percent' = [ last_percent EXCEPT ![w] = 0 ]
  /\ last_speed' = [ last_speed EXCEPT ![w] = "" ]
  /\ last_eta' = [ last_eta EXCEPT ![w] = "" ]
  /\ delta' = [ delta EXCEPT ![w] = 0 ]
  /\ no_signal' = [ no_signal EXCEPT ![w] = FALSE ]
  /\ tmp' = [ tmp EXCEPT ![w] = 0 ]
  /\ proc' = [ proc EXCEPT ![w] = "none" ]
  /\ returncode' = [ returncode EXCEPT ![w] = NoCode ]
  /\ pipe' = [ pipe EXCEPT ![w] = 0 ]
  /\ q' = [ q EXCEPT ![w] = 0 ]

\* a pool thread takes the next submitted item (the threads of the pool are
\* interchangeable: the lowest-numbered idle one takes it); lines 391-393
MarkStarted(w) ==
  /\ w \in Pool
  /\ wpc[w] = "idle"
  /\ \A v \in Pool : v < w => wpc[v] # "idle"
  /\ work_queue # << >>
  /\ LockFree
  /\ LET i == Head(work_queue) IN
       /\ witem' = [ witem EXCEPT ![w] = i ]
       /\ upload_stats' = [ upload_stats EXCEPT ![i].started = TRUE ]
       /\ active_uploads' = active_uploads \cup { i }
  /\ work_queue' = Tail(work_queue)
  /\ wpc' = [ wpc EXCEPT ![w] = "acct_read" ]
  /\ UNCHANGED << nlines, mainVars, overall_transferred, processed_files,
                  completed_files, lock, futures_done, acctVars, parseVars,
                  procVars, histVars, confVars, tmp, torn_seen >>

\* line 94: account = self.service_accounts[self.current_account_index]
GetAccountRead(w) ==
  /\ wpc[w] = "acct_read"
  /\ account' = [ account EXCEPT ![w] = current_account_index ]
  /\ handed' = Append(handed, current_account_index)
  /\ wpc' = [ wpc EXCEPT ![w] = "acct_next" ]
  /\ UNCHANGED << nlines, mainVars, sharedVars, current_account_index, next_index,
                  parseVars, procVars, work_queue, futures_done, witem,
                  histVars, confVars, tmp, torn_seen >>

\* line 95
GetAccountNext(w) ==
  /\ wpc[w] = "acct_next"
  /\ next_index' = [ next_index EXCEPT ![w] = NextIndex(current_account_index, nAccounts) ]
  /\ wpc' = [ wpc EXCEPT ![w] = "acct_write" ]
  /\ UNCHANGED << nlines, mainVars, sharedVars, current_account_index, account, handed,
                  parseVars, procVars, work_queue, futures_done, witem,
                  histVars, confVars, tmp, torn_seen >>

\* line 96: self.current_account_index = next_index
GetAccountWrite(w) ==
  /\ wpc[w] = "acct_write"
  /\ current_account_index' = next_index[w]
  /\ wpc' = [ wpc EXCEPT ![w] = "config" ]
  /\ UNCHANGED << nlines, mainVars, sharedVars, account, next_index, handed,
                  parseVars, procVars, work_queue, futures_done, witem,
                  histVars, confVars, tmp, torn_seen >>

\* line 396, lines 99-108: the configuration file is written
CreateConfig(w) ==
  /\ wpc[w] = "config"
  /\ wpc' = [ wpc EXCEPT ![w] = "popen" ]
  /\ UNCHANGED << nlines, mainVars, sharedVars, acctVars, parseVars, procVars,
                  work_queue, futures_done, witem, histVars, confVars, tmp, torn_seen >>

\* line 106: open(config_file, 'w') raises OSError; line 396 is outside the
\* try block of line 420, so the exception leaves upload_item
CreateConfigRaises(w) ==
  /\ wpc[w] = "config"
  /\ Finish(w)
  /\ UNCHANGED << nlines, mainVars, sharedVars, current_account_index, handed,
                  work_queue, histVars, confVars, torn_seen >>

\* lines 425-443: the subprocess and its reader thread are started
Popen(w) ==
  /\ wpc[w] = "popen"
  /\ proc' = [ proc EXCEPT ![w] = "running" ]
  /\ wpc' = [ wpc EXCEPT ![w] = "loop" ]
  /\ UNCHANGED << nlines, mainVars, sharedVars, acctVars, parseVars, returncode,
                  pipe, q, work_queue, futures_done, witem, histVars, confVars,
                  tmp, torn_seen >>

\* line 425: subprocess.Popen raises; control goes to line 511
PopenRaises(w) ==
  /\ wpc[w] = "popen"
  /\ wpc' = [ wpc EXCEPT ![w] = "except" ]
  /\ UNCHANGED << nlines, mainVars, sharedVars, acctVars, parseVars, procVars,
                  work_queue, futures_done, witem, histVars, confVars, tmp, torn_seen >>

\* the subprocess writes one more line to its stdout pipe
ProcEmit(w) ==
  /\ proc[w] = "running"
  /\ nlines < MaxLines
  /\ pipe' = [ pipe EXCEPT ![w] = @ + 1 ]
  /\ nlines' = nlines + 1
  /\ UNCHANGED << mainVars, sharedVars, acctVars, parseVars, proc, returncode,
                  q, poolVars, histVars, confVars, tmp, torn_seen >>

\* the subprocess exits with code rc
ProcExit(w, rc) ==
  /\ proc[w] = "running"
  /\ proc' = [ proc EXCEPT ![w] = "exited" ]
  /\ returncode' = [ returncode EXCEPT ![w] = rc ]
  /\ exitcode' = [ exitcode EXCEPT ![witem[w]] = rc ]
  /\ UNCHANGED << nlines, mainVars, sharedVars, acctVars, parseVars, pipe, q,
                  poolVars, appliedPos, appliedAll, removals, confVars, tmp, torn_seen >>

\* lines 436-438, enqueue_output: the reader thread moves one line to the queue
EnqueueOutput(w) ==
  /\ proc[w] # "none"
  /\ pipe[w] > 0
  /\ q' = [ q EXCEPT ![w] = @ + 1 ]
  /\ pipe' = [ pipe EXCEPT ![w] = @ - 1 ]
  /\ UNCHANGED << nlines, mainVars, sharedVars, acctVars, parseVars, proc, returncode,
                  poolVars, histVars, confVars, tmp, torn_seen >>

\* lines 452, 459-474: the next line is taken from the queue and parsed
QGet(w, line) ==
  /\ wpc[w] = "loop"
  /\ q[w] > 0
  /\ LET percent == Keep(line.pct, NoPct, last_percent[w])
         tbytes  == TransferredBytes(items[witem[w]], percent)
     IN  /\ last_percent' = [ last_percent EXCEPT ![w] = percent ]
         /\ last_speed' = [ last_speed EXCEPT ![w] = Keep(line.speed, NoMatch, @) ]
         /\ last_eta' = [ last_eta EXCEPT ![w] = Keep(line.eta, NoMatch, @) ]
         /\ delta' = [ delta EXCEPT ![w] = tbytes - last_transferred[w] ]
         /\ last_transferred' = [ last_transferred EXCEPT ![w] = tbytes ]
  /\ no_signal' = [ no_signal EXCEPT ![w] =
        line.pct = NoPct /\ line.speed = NoMatch /\ line.eta = NoMatch ]
  /\ q' = [ q EXCEPT ![w] = @ - 1 ]
  /\ wpc' = [ wpc EXCEPT ![w] = "upd_load" ]
  /\ UNCHANGED << nlines, mainVars, sharedVars, acctVars, proc, returncode,
                  pipe, work_queue, futures_done, witem, histVars, confVars,
                  tmp, torn_seen >>

\* lines 453-455 and 485: q.get times out, poll() reports the exit, wait()
QEmpty(w) ==
  /\ wpc[w] = "loop"
  /\ q[w] = 0
  /\ proc[w] = "exited"
  /\ wpc' = [ wpc EXCEPT ![w] = "final" ]
  /\ UNCHANGED << nlines, mainVars, sharedVars, acctVars, parseVars, procVars,
                  work_queue, futures_done, witem, histVars, confVars, tmp, torn_seen >>

\* lines 477-478: the lock is taken, "+=" loads self.overall_transferred
UpdLoad(w) ==
  /\ wpc[w] = "upd_load"
  /\ LockFree
  /\ lock' = w
  /\ tmp' = [ tmp EXCEPT ![w] = overall_transferred ]
  /\ wpc' = [ wpc EXCEPT ![w] = "upd_store" ]
  /\ UNCHANGED << nlines, mainVars, upload_stats, overall_transferred, active_uploads,
                  processed_files, completed_files, acctVars, parseVars,
                  procVars, work_queue, futures_done, witem, histVars,
                  confVars, torn_seen >>

\* line 478: "+=" stores the sum
UpdStore(w) ==
  /\ wpc[w] = "upd_store"
  /\ overall_transferred' = AddDelta(tmp[w], delta[w])
  /\ appliedPos' = appliedPos + Max0(delta[w])
  /\ appliedAll' = appliedAll + delta[w]
  /\ wpc' = [ wpc EXCEPT ![w] = "upd_stats" ]
  /\ UNCHANGED << nlines, mainVars, upload_stats, active_uploads, processed_files,
                  completed_files, lock, acctVars, parseVars, procVars,
                  work_queue, futures_done, witem, exitcode, removals,
                  confVars, tmp, torn_seen >>

\* faulty variant of UpdStats: the item is also marked completed as soon as the
\* parsed percentage reaches 100
UpdStatsMarksCompleted(w) ==
  /\ wpc[w] = "upd_stats"
  /\ upload_stats' = [ upload_stats EXCEPT ![witem[w]] =
        [ @ EXCEPT !.transferred = last_transferred[w],
                   !.speed = last_speed[w],
                   !.eta = last_eta[w],
                   !.completed = (@ \/ last_percent[w] >= 100) ] ]
  /\ lock' = IF lock = w THEN NoWorker ELSE lock
  /\ wpc' = [ wpc EXCEPT ![w] = "loop" ]
  /\ no_signal' = [ no_signal EXCEPT ![w] = FALSE ]
  /\ UNCHANGED << nlines, mainVars, overall_transferred, active_uploads,
                  processed_files, completed_files, acctVars, last_transferred,
                  last_percent, last_speed, last_eta, delta,
                  procVars, work_queue, futures_done, witem, histVars,
                  confVars, tmp, torn_seen >>

\* lines 479-483: the item's record is updated, the lock is released
UpdStats(w) ==
  /\ wpc[w] = "upd_stats"
  /\ upload_stats' = [ upload_stats EXCEPT ![witem[w]] =
        [ @ EXCEPT !.transferred = last_transferred[w],
                   !.speed = last_speed[w],
                   !.eta = last_eta[w] ] ]
  /\ lock' = IF lock = w THEN NoWorker ELSE lock
  /\ wpc' = [ wpc EXCEPT ![w] = "loop" ]
  /\ no_signal' = [ no_signal EXCEPT ![w] = FALSE ]
  /\ UNCHANGED << nlines, mainVars, overall_transferred, active_uploads,
                  processed_files, completed_files, acctVars, last_transferred,
                  last_percent, last_speed, last_eta, delta,
                  procVars, work_queue, futures_done, witem, histVars,
                  confVars, tmp, torn_seen >>

\* lines 488-489: the lock is taken and the exit code decides the branch;
\* on exit code 0 line 492's "+=" loads self.overall_transferred
FinalAcquire(w) ==
  /\ wpc[w] = "final"
  /\ LockFree
  /\ lock' = w
  /\ IF ExitOk(returncode[w])
       THEN /\ tmp' = [ tmp EXCEPT ![w] = overall_transferred ]
            /\ wpc' = [ wpc EXCEPT ![w] = "fin_store" ]
       ELSE /\ tmp' = tmp
            /\ wpc' = [ wpc EXCEPT ![w] = "fin_failed" ]
  /\ UNCHANGED << nlines, mainVars, upload_stats, overall_transferred, active_uploads,
                  processed_files, completed_files, acctVars, parseVars,
                  procVars, work_queue, futures_done, witem, histVars,
                  confVars, torn_seen >>

\* lines 491-494
FinStore(w) ==
  /\ wpc[w] = "fin_store"
  /\ LET remaining == RemainingBytes(items[witem[w]], last_transferred[w]) IN
       /\ overall_transferred' = AddDelta(tmp[w], remaining)
       /\ appliedPos' = appliedPos + Max0(remaining)
       /\ appliedAll' = appliedAll + remaining
  /\ completed_files' = completed_files + 1
  /\ processed_files' = processed_files + 1
  /\ wpc' = [ wpc EXCEPT ![w] = "fin_stats" ]
  /\ UNCHANGED << nlines, mainVars, upload_stats, active_uploads, lock, acctVars,
                  parseVars, procVars, work_queue, futures_done, witem,
                  exitcode, removals, confVars, tmp, torn_seen >>

\* lines 496-501
FinStats(w) ==
  /\ wpc[w] = "fin_stats"
  /\ upload_stats' = [ upload_stats EXCEPT ![witem[w]] =
        [ @ EXCEPT !.transferred = FinalTransferred(items[witem[w]], last_transferred[w]),
                   !.speed = "Done",
                   !.eta = "",
                   !.completed = TRUE ] ]
  /\ wpc' = [ wpc EXCEPT ![w] = "fin_remove" ]
  /\ UNCHANGED << nlines, mainVars, overall_transferred, active_uploads,
                  processed_files, completed_files, lock, acctVars, parseVars,
                  procVars, work_queue, futures_done, witem, histVars,
                  confVars, tmp, torn_seen >>

\* lines 503-507
FinFailed(w) ==
  /\ wpc[w] = "fin_failed"
  /\ upload_stats' = [ upload_stats EXCEPT ![witem[w]] =
        [ @ EXCEPT !.speed = "Failed", !.failed = TRUE ] ]
  /\ processed_files' = processed_files + 1
  /\ wpc' = [ wpc EXCEPT ![w] = "fin_remove" ]
  /\ UNCHANGED << nlines, mainVars, overall_transferred, active_uploads,
                  completed_files, lock, acctVars, parseVars, procVars,
                  work_queue, futures_done, witem, histVars, confVars, tmp, torn_seen >>

\* line 509, the lock is released and upload_item returns
FinRemove(w) ==
  /\ wpc[w] = "fin_remove"
  /\ active_uploads' = active_uploads \ { witem[w] }
  /\ removals' = [ removals EXCEPT ![witem[w]] = @ + 1 ]
  /\ lock' = IF lock = w THEN NoWorker ELSE lock
  /\ Finish(w)
  /\ UNCHANGED << nlines, mainVars, upload_stats, overall_transferred, processed_files,
                  completed_files, current_account_index, handed, work_queue,
                  appliedPos, appliedAll, exitcode, confVars, torn_seen >>

\* lines 511-518: the except handler, then upload_item returns
Except(w) ==
  /\ wpc[w] = "except"
  /\ LockFree
  /\ upload_stats' = [ upload_stats EXCEPT ![witem[w]] =
        [ @ EXCEPT !.speed = "Error", !.failed = TRUE ] ]
  /\ active_uploads' = active_uploads \ { witem[w] }
  /\ removals' = [ removals EXCEPT ![witem[w]] = @ + 1 ]
  /\ processed_files' = processed_files + 1
  /\ Finish(w)
  /\ UNCHANGED << nlines, mainVars, overall_transferred, completed_files, lock,
                  current_account_index, handed, work_queue, appliedPos, appliedAll,
                  exitcode, confVars, torn_seen >>

\* ---------------------------------------------------------------- specification
Next ==
  \/ \E found \in SeqsUpTo(MaxItems), readable \in BOOLEAN : Scan(found, readable)
  \/ ScanRaises
  \/ InitStats
  \/ Submit
  \/ Present
  \/ FinalUpdate
  \/ Summary
  \/ Cleanup
  \/ Interrupt
  \/ ReportCanceled
  \/ ProcessExit
  \/ \E w \in Workers : MarkStarted(w)
  \/ \E w \in Workers : GetAccountRead(w)
  \/ \E w \in Workers : GetAccountNext(w)
  \/ \E w \in Workers : GetAccountWrite(w)
  \/ \E w \in Workers : CreateConfig(w)
  \/ \E w \in Workers : CreateConfigRaises(w)
  \/ \E w \in Workers : Popen(w)
  \/ \E w \in Workers : PopenRaises(w)
  \/ \E w \in Workers : ProcEmit(w)
  \/ \E w \in Workers, rc \in {0, 1} : ProcExit(w, rc)
  \/ \E w \in Workers : EnqueueOutput(w)
  \/ \E w \in Workers, line \in LineSet : QGet(w, line)
  \/ \E w \in Workers : QEmpty(w)
  \/ \E w \in Workers : UpdLoad(w)
  \/ \E w \in Workers : UpdStore(w)
  \/ \E w \in Workers : UpdStats(w)
  \/ \E w \in Workers : FinalAcquire(w)
  \/ \E w \in Workers : FinStore(w)
  \/ \E w \in Workers : FinStats(w)
  \/ \E w \in Workers : FinFailed(w)
  \/ \E w \in Workers : FinRemove(w)
  \/ \E w \in Workers : Except(w)

Spec == Init /\ [][Next]_vars

\* ---------------------------------------------------------------- properties
Terminal(i) == upload_stats[i].completed \/ upload_stats[i].failed

Running == { w \in Workers : proc[w] = "running" }

\* C1: an item recorded as completed has 'transferred' equal to its 'size',
\* whatever progress lines were parsed before.
C1_CompletedTransferredIsSize ==
  \A i \in DOMAIN upload_stats :
    upload_stats[i].completed => upload_stats[i].transferred = upload_stats[i].size

\* C1 witness: an item has just been recorded as completed although the last
\* estimate from its progress lines was positive and below its size.
C1_Witness ==
  \E w \in Workers :
    /\ wpc[w] = "fin_remove"
    /\ upload_stats[witem[w]].completed
    /\ last_transferred[w] > 0
    /\ last_transferred[w] < items[witem[w]]

C3_WaitEndsAllTerminal ==
  (mainpc \in {"summary", "cleanup"} \/ summary.printed) => \A i \in ItemIds : Terminal(i)

\* C4: at most max_workers subprocesses run at once, active_uploads never
\* holds more than max_workers items, and at most max_workers items are
\* started and unfinished (the others are still pending).
C4_ConcurrencyBounded ==
  /\ Cardinality(Running) <= max_workers
  /\ Cardinality(active_uploads) <= max_workers
  /\ Cardinality({ i \in DOMAIN upload_stats :
                     upload_stats[i].started /\ i \notin futures_done }) <= max_workers

\* C5: any len(service_accounts) calls of _get_next_account that follow one
\* another return pairwise distinct credentials, under any interleaving.
C5_ConcurrentRoundRobin ==
  \A k \in DOMAIN handed :
    \A m \in DOMAIN handed :
      (k < m /\ m - k < nAccounts) => handed[k] # handed[m]

\* C6: with a single worker thread the k-th call of _get_next_account returns
\* service_accounts[(k-1) mod N], and between calls the index is k mod N.
C6_SequentialRoundRobin ==
  max_workers = 1 =>
    /\ \A k \in DOMAIN handed : handed[k] = (k - 1) % nAccounts
    /\ (\A w \in Workers : wpc[w] \notin {"acct_next", "acct_write"}) =>
          current_account_index = Len(handed) % nAccounts

\* C6 witness: one worker, two credentials, two calls made, the index has
\* wrapped to the first credential.
C6_Witness ==
  /\ max_workers = 1
  /\ nAccounts = 2
  /\ handed = << 0, 1 >>
  /\ current_account_index = 0

\* C7: no frame read by the display loop has overall_transferred different
\* from the sum of the items' 'transferred' it shows.
C7_NoTornRead == ~torn_seen

\* the delta a worker's next step adds to overall_transferred
StepDelta(w) ==
  IF wpc[w] = "upd_store" THEN delta[w]
  ELSE IF wpc[w] = "fin_store"
       THEN RemainingBytes(items[witem[w]], last_transferred[w])
       ELSE 0

\* C8: overall_transferred never exceeds the sum of the non-negative deltas
\* applied so far, it is the sum of all deltas applied so far (none lost, none
\* applied twice), and it decreases only in a step that applies a negative delta.
C8_OverallMonotone ==
  [][ /\ overall_transferred' <= appliedPos'
      /\ overall_transferred' = appliedAll'
      /\ overall_transferred' < overall_transferred =>
           \E w \in Workers : wpc'[w] # wpc[w] /\ StepDelta(w) < 0 ]_vars

\* C8 witness: two workers have each applied a positive delta and the total
\* holds both.
C8_Witness ==
  /\ \E w1 \in Workers : \E w2 \in Workers \ {w1} :
        /\ last_transferred[w1] > 0 /\ wpc[w1] = "loop"
        /\ last_transferred[w2] > 0 /\ wpc[w2] = "loop"
        /\ overall_transferred = last_transferred[w1] + last_transferred[w2]
  /\ lock = NoWorker

\* C9: every item whose worker has finished was removed from active_uploads
\* exactly once, and active_uploads is empty when all workers have finished.
C9_RemovedExactlyOnce ==
  /\ \A i \in futures_done : removals[i] = 1
  /\ (ItemIds # {} /\ AllDone) => active_uploads = {}

\* C10: no item is both completed and failed, and once an item is completed or
\* failed its completed, failed and transferred values never change.
C10_TerminalIsFinal ==
  [][ \A i \in DOMAIN upload_stats :
        /\ ~(upload_stats'[i].completed /\ upload_stats'[i].failed)
        /\ Terminal(i) =>
             /\ upload_stats'[i].completed = upload_stats[i].completed
             /\ upload_stats'[i].failed = upload_stats[i].failed
             /\ upload_stats'[i].transferred = upload_stats[i].transferred ]_vars

\* C10 witness: one item is completed, another is failed, and the run has
\* gone on to print the summary.
C10_Witness ==
  /\ summary.printed
  /\ \E i \in ItemIds : upload_stats[i].completed
  /\ \E i \in ItemIds : upload_stats[i].failed

\* C11: when the process has ended after a run in which some item failed, the
\* summary it printed lists every failed item and its exit status is not zero.
C11_FailuresReported ==
  (mainpc = "exited" /\ summary.printed /\ \E i \in ItemIds : upload_stats[i].failed) =>
     /\ \A i \in ItemIds : upload_stats[i].failed => i \in summary.failed
     /\ exit_status # 0

\* C12: a source root that is missing or unreadable gives an enumeration error,
\* not the empty-directory outcome: nothing is enumerated or scheduled and the
\* process ends with a non-zero exit status.
C12_UnreadableRootFails ==
  (mainpc = "exited" /\ ~root_ok) =>
     /\ outcome # "nothing_to_do"
     /\ items = << >>
     /\ upload_stats = << >>
     /\ exit_status # 0

\* C13: however the run ended, the temporary directory made by the constructor
\* is gone when the process has ended.
C13_TempDirRemoved == mainpc = "exited" => ~temp_dir

\* C14: after KeyboardInterrupt no queued item is handed to a worker any more,
\* and the cancellation is reported only when no subprocess is running.
C14_InterruptStopsQueue ==
  [][ /\ mainpc = "shutdown" => work_queue' = work_queue
      /\ outcome' = "canceled" => Running' = {} ]_vars

\* C15: when the summary has been printed and every item's subprocess exited
\* with code 0, overall_transferred equals total_size, the sum of the sizes,
\* the summary counts every item as successful and lists no failed item, and
\* active_uploads is empty.
C15_AllZeroExitsAddUp ==
  (summary.printed /\ \A i \in ItemIds : exitcode[i] = 0) =>
     /\ overall_transferred = total_size
     /\ total_size = SumSeq(items)
     /\ summary.successful = Len(items)
     /\ summary.failed = {}
     /\ active_uploads = {}

\* C15 witness: two items of different sizes ran with two pool threads, both
\* subprocesses exited with code 0, and the summary is printed.
C15_Witness ==
  /\ summary.printed
  /\ max_workers = 2
  /\ Len(items) = 2 /\ items[1] # items[2]
  /\ \A i \in ItemIds : exitcode[i] = 0

\* C16: once every item is completed or failed and every worker has returned,
\* overall_transferred is at most total_size, whatever percentages were parsed.
C16_OverallAtMostTotal ==
  (ItemIds # {} /\ AllDone /\ \A i \in DOMAIN upload_stats : Terminal(i)) =>
     overall_transferred <= total_size

\* C17: after an enumeration that found no item the run has short-circuited
\* with the nothing-to-do message: there is no stats record, nothing was
\* submitted, every pool thread is idle and no subprocess exists or has written.
C17_EmptyShortCircuits ==
  (mainpc # "scan" /\ items = << >> /\ outcome # "critical") =>
     /\ outcome = "nothing_to_do"
     /\ mainpc \in { "main_end", "exited" }
     /\ upload_stats = << >>
     /\ work_queue = << >>
     /\ active_uploads = {}
     /\ \A w \in Workers : wpc[w] = "idle" /\ proc[w] = "none"
     /\ nlines = 0

\* C17 witness: an existing, readable, empty source directory was scanned and
\* the process has ended.
C17_Witness ==
  /\ root_ok
  /\ items = << >>
  /\ outcome = "nothing_to_do"
  /\ mainpc = "exited"

\* C18: while an item is in active_uploads no step lowers its 'transferred',
\* and an item that is completed has 'transferred' equal to its size.
C18_TransferredMonotone ==
  [][ \A i \in DOMAIN upload_stats :
        /\ i \in active_uploads =>
             upload_stats'[i].transferred >= upload_stats[i].transferred
        /\ upload_stats'[i].completed =>
             upload_stats'[i].transferred = upload_stats'[i].size ]_vars

\* C19: parsing a line without percentage, speed and ETA leaves last_percent,
\* last_speed, last_eta and last_transferred as they were and computes a zero
\* delta; the locked update that follows leaves overall_transferred and the
\* item's 'transferred' unchanged, does not fail the item, and the worker goes
\* back to reading lines.
C19_BlankLineChangesNothing ==
  [][ \A w \in Workers :
        /\ (wpc[w] = "loop" /\ wpc'[w] = "upd_load" /\ no_signal'[w]) =>
             /\ last_percent'[w] = last_percent[w]
             /\ last_speed'[w] = last_speed[w]
             /\ last_eta'[w] = last_eta[w]
             /\ last_transferred'[w] = last_transferred[w]
             /\ delta'[w] = 0
             /\ upload_stats' = upload_stats
             /\ overall_transferred' = overall_transferred
        /\ (no_signal[w] /\ wpc'[w] # wpc[w]) =>
             /\ wpc[w] \in { "upd_load", "upd_store", "upd_stats" }
             /\ wpc'[w] \in { "upd_store", "upd_stats", "loop" }
             /\ overall_transferred' = overall_transferred
             /\ upload_stats'[witem[w]].transferred =
                  upload_stats[witem[w]].transferred
             /\ ~upload_stats'[witem[w]].failed
             /\ ~upload_stats'[witem[w]].completed ]_vars

\* C19 witness: a worker that had parsed a percentage has read a line without
\* any of the three signals and has applied its zero delta; only the write
\* of the item's record remains.
C19_Witness ==
  \E w \in Workers :
    /\ no_signal[w]
    /\ wpc[w] = "upd_stats"
    /\ last_percent[w] > 0
    /\ last_speed[w] # ""

\* the sum of the 'transferred' values of lines 285 and 479-483 over all items
SumTransferred ==
  SumSeq([ i \in DOMAIN upload_stats |-> upload_stats[i].transferred ])

\* C20: whenever self.lock is free, overall_transferred is the sum of the
\* 'transferred' values of all items.
C20_OverallIsSumOfTransferred ==
  lock = NoWorker => overall_transferred = SumTransferred

\* C20 witness: the lock is free after one item failed with part of its bytes
\* counted and another item completed.
C20_Witness ==
  /\ lock = NoWorker
  /\ \E i \in DOMAIN upload_stats :
        upload_stats[i].failed /\ upload_stats[i].transferred > 0
  /\ \E i \in DOMAIN upload_stats : upload_stats[i].completed
  /\ overall_transferred > 0

\* C21: a worker that has left the parsing loop has consumed every line its
\* subprocess wrote: none is left in the pipe for the reader thread and none
\* in the queue.
C21_AllLinesConsumed ==
  \A w \in Workers :
    wpc[w] \in { "final", "fin_store", "fin_stats", "fin_failed", "fin_remove" } =>
      pipe[w] = 0 /\ q[w] = 0

\* C22: no worker writes the configuration file of a credential in
\* _create_rclone_config while another worker's subprocess, started with the
\* file of that same credential, is running.
C22_NoRewriteUnderRunningProcess ==
  [][ \A w \in Workers :
        (wpc[w] = "config" /\ wpc'[w] = "popen") =>
           \A v \in Workers \ { w } :
              ~(proc[v] = "running" /\ account[v] = account[w]) ]_vars

====
